---- MODULE Spec2Model ----
(***************************************************************************)
(* A model of storage/influxdb/influxdb.go: the conversion of a container  *)
(* statistics sample into rows (series with one point), the lock-protected *)
(* write buffer with its ready-to-flush predicate, and the hand-off of a   *)
(* swapped-out batch to the store client outside the lock.                 *)
(***************************************************************************)
EXTENDS Integers, Sequences, FiniteSets, TLC

\* ------------------------------------------------------------------ bounds
\* Number of operations (AddStats, OverrideReadyToFlush, Close) invoked in a run
\* of the concurrent callers, and of the sequential caller.
MaxCalls == 3
MaxSeqCalls == 2
\* A float64 value is counted in units of 1/FloatUnit.
FloatUnit == 10
\* The wall clock runs from 0 (the time of New) to MaxTime.
MaxTime == 2

\* The goroutines that call the storage concurrently.
Threads == {"t1", "t2"}

\* A nil pointer to a struct (stats, stats.Cpu, stats.Memory, stats.Network).
Nil == [isNil |-> TRUE]
NoThread == "none"

\* ------------------------------------------------------------ column schema
colTimestamp == "time"
colMachineName == "machine"
colContainerName == "container_name"
colCpuCumulativeUsage == "cpu_cumulative_usage"
colMemoryUsage == "memory_usage"
colMemoryWorkingSet == "memory_working_set"
colRxBytes == "rx_bytes"
colRxErrors == "rx_errors"
colTxBytes == "tx_bytes"
colTxErrors == "tx_errors"
colFsDevice == "fs_device"
colFsLimit == "fs_limit"
colFsUsage == "fs_usage"

\* ------------------------------------------------------------ Go arithmetic
\* Go's integer division truncates toward zero; \div floors.
GoDiv(a, b) == IF a >= 0 THEN a \div b ELSE -((-a) \div b)
GoMod(a, b) == a - b * GoDiv(a, b)

\* A Go interface{} value: its dynamic type and its value.
Val(type, v) == [type |-> type, v |-> v]

\* ------------------------------------------------------------------ inputs
\* self.machineName and self.tableName, fixed by New.
MachineName == "host1"
TableName == "stats"

\* info.ContainerReference values: without and with aliases.
Refs ==
  { [name |-> "/docker/c1", aliases |-> <<>>],
    [name |-> "/docker/c1", aliases |-> <<"web", "alt">>] }

\* stats.Timestamp as nanoseconds since the epoch.
Timestamps == {0, 999, 1500, 1001500}

NetStats == [rxBytes |-> 11, rxErrors |-> 1, txBytes |-> 12, txErrors |-> 2]
FsA == [device |-> "/dev/sda1", limit |-> 100, usage |-> 40]
FsB == [device |-> "/dev/sdb1", limit |-> 200, usage |-> 50]
FsLists == { <<>>, <<FsA>>, <<FsB, FsA>>, <<FsA, FsB, FsA>> }

MkStats(ts, cpu, mem, net, fs) ==
  [timestamp |-> ts, cpu |-> cpu, memory |-> mem, network |-> net, filesystem |-> fs]

CpuStats == [total |-> 7]
MemStats == [usage |-> 5, workingSet |-> 3]

\* The samples of the sequential caller (*info.ContainerStats): every invalid
\* shape (nil, Cpu nil, Memory nil, both nil) and a base sample varied in one
\* field at a time (timestamp; network and filesystem).
BaseStats == MkStats(1500, CpuStats, MemStats, Nil, <<>>)
SomeStats ==
  { Nil,
    MkStats(1500, Nil, MemStats, Nil, <<>>),
    MkStats(1500, CpuStats, Nil, NetStats, <<FsA>>),
    MkStats(1500, Nil, Nil, Nil, <<>>) }
  \cup { MkStats(ts, CpuStats, MemStats, Nil, <<>>) : ts \in Timestamps }
  \cup { MkStats(1500, CpuStats, MemStats, net, fs) :
            net \in {Nil, NetStats}, fs \in FsLists }

\* The samples the concurrent callers pass: an invalid one, one that yields
\* one row and one that yields two.
FewStats ==
  { Nil, BaseStats, MkStats(999, CpuStats, MemStats, NetStats, <<FsA>>) }
FewRefs == { [name |-> "/docker/c1", aliases |-> <<>>] }

\* ------------------------------------------------------------ write path
\* newSeries: a series of one point. The id stands for the identity of the
\* allocated *influxdb.Series (its position in the order of creation).
newSeries(id, columns, points) ==
  [id |-> id, name |-> TableName, columns |-> columns, points |-> <<points>>]

\* getSeriesDefaultValues receives the slices columns and values by value and
\* appends to its own copies of the slice headers; it returns nothing.
\* "callee" is what the function built locally, "caller" is what the
\* caller's columns and values are after the call: unchanged, since the
\* caller's slice headers keep their length (0 at both call sites).
getSeriesDefaultValues(ref, stats, columns, values) ==
  LET c1 == Append(columns, colTimestamp)
      v1 == Append(values, Val("int64", GoDiv(stats.timestamp, 1000)))
      c2 == Append(c1, colMachineName)
      v2 == Append(v1, Val("string", MachineName))
      c3 == Append(c2, colContainerName)
      v3 == IF Len(ref.aliases) > 0
              THEN Append(v2, Val("string", ref.aliases[1]))
              ELSE Append(v2, Val("string", ref.name))
  IN  [callee |-> [columns |-> c3, values |-> v3],
       caller |-> [columns |-> columns, values |-> values]]

\* Mutant: the working-set column carries the memory usage.
containerStatsToValuesUsageTwice(ref, stats) ==
  LET d == getSeriesDefaultValues(ref, stats, <<>>, <<>>).caller
      c == d.columns \o <<colCpuCumulativeUsage, colMemoryUsage, colMemoryWorkingSet>>
      v == d.values \o << Val("uint64", stats.cpu.total),
                          Val("uint64", stats.memory.usage),
                          Val("uint64", stats.memory.usage) >>
  IN  IF stats.network # Nil
        THEN [columns |-> c \o <<colRxBytes, colRxErrors, colTxBytes, colTxErrors>>,
              values |-> v \o << Val("uint64", stats.network.rxBytes),
                                 Val("uint64", stats.network.rxErrors),
                                 Val("uint64", stats.network.txBytes),
                                 Val("uint64", stats.network.txErrors) >>]
        ELSE [columns |-> c, values |-> v]

\* containerStatsToValues: the core-metrics row.
containerStatsToValues(ref, stats) ==
  LET d == getSeriesDefaultValues(ref, stats, <<>>, <<>>).caller
      c == d.columns \o <<colCpuCumulativeUsage, colMemoryUsage, colMemoryWorkingSet>>
      v == d.values \o << Val("uint64", stats.cpu.total),
                          Val("uint64", stats.memory.usage),
                          Val("uint64", stats.memory.workingSet) >>
  IN  IF stats.network # Nil
        THEN [columns |-> c \o <<colRxBytes, colRxErrors, colTxBytes, colTxErrors>>,
              values |-> v \o << Val("uint64", stats.network.rxBytes),
                                 Val("uint64", stats.network.rxErrors),
                                 Val("uint64", stats.network.txBytes),
                                 Val("uint64", stats.network.txErrors) >>]
        ELSE [columns |-> c, values |-> v]

\* One filesystem row: the body of the loop of containerFilesystemStatsToSeries.
fsStatToSeries(id, ref, stats, fsStat) ==
  LET d == getSeriesDefaultValues(ref, stats, <<>>, <<>>).caller
  IN  newSeries(id,
                d.columns \o <<colFsDevice, colFsLimit, colFsUsage>>,
                d.values \o << Val("string", fsStat.device),
                               Val("uint64", fsStat.limit),
                               Val("uint64", fsStat.usage) >>)

\* Mutant: the filesystem rows come out in reverse order.
containerFilesystemStatsToSeriesReversed(firstId, ref, stats) ==
  [i \in 1..Len(stats.filesystem) |->
      fsStatToSeries(firstId + i - 1, ref, stats,
                     stats.filesystem[Len(stats.filesystem) + 1 - i])]

\* containerFilesystemStatsToSeries: one series per filesystem entry, in the
\* order of stats.Filesystem; the ids follow firstId.
containerFilesystemStatsToSeries(firstId, ref, stats) ==
  [i \in 1..Len(stats.filesystem) |->
      fsStatToSeries(firstId + i - 1, ref, stats, stats.filesystem[i])]

\* The rows one AddStats appends (lines 273-274): the core-metrics row, then
\* the filesystem rows.
rowsOf(firstId, ref, stats) ==
  LET core == containerStatsToValues(ref, stats)
  IN  <<newSeries(firstId, core.columns, core.values)>>
        \o containerFilesystemStatsToSeries(firstId + 1, ref, stats)

\* ------------------------------------------------------------- read path
\* What the store returns for a value it was given: numbers arrive as
\* float64, strings as strings.
storeDecode(value) ==
  IF value.type \in {"int", "int32", "int64", "uint32", "uint64"}
    THEN Val("float64", value.v * FloatUnit)
    ELSE value
storeDecodeAll(values) == [i \in DOMAIN values |-> storeDecode(values[i])]

\* time.Time: the zero value, or an instant as nanoseconds since the epoch.
ZeroTime == [zero |-> TRUE, ns |-> 0]
\* time.Unix(sec, nsec).
timeUnix(sec, nsec) == [zero |-> FALSE, ns |-> sec * 1000000000 + nsec]

\* Mutant: a negative float64 is converted like any other.
convertToUint64FloatUnchecked(v) ==
  CASE v.type = "nil" -> [v |-> 0, err |-> "none"]
    [] v.type \in {"uint64", "uint32"} -> [v |-> v.v, err |-> "none"]
    [] v.type \in {"int", "int32", "int64"} ->
         IF v.v < 0 THEN [v |-> 0, err |-> "negative value"]
         ELSE [v |-> v.v, err |-> "none"]
    [] v.type = "float64" -> [v |-> GoDiv(v.v, FloatUnit), err |-> "none"]
    [] OTHER -> [v |-> 0, err |-> "Unknown type"]

\* convertToUint64 (lines 144-175).
convertToUint64(v) ==
  CASE v.type = "nil" -> [v |-> 0, err |-> "none"]
    [] v.type \in {"uint64", "uint32"} -> [v |-> v.v, err |-> "none"]
    [] v.type \in {"int", "int32", "int64"} ->
         IF v.v < 0 THEN [v |-> 0, err |-> "negative value"]
         ELSE [v |-> v.v, err |-> "none"]
    [] v.type = "float64" ->
         IF v.v < 0 THEN [v |-> 0, err |-> "negative value"]
         ELSE [v |-> GoDiv(v.v, FloatUnit), err |-> "none"]
    [] OTHER -> [v |-> 0, err |-> "Unknown type"]

\* The accumulator of valuesToContainerStats (lines 178-183).
emptyStats ==
  [timestamp |-> ZeroTime,
   cpu |-> [total |-> 0],
   memory |-> [usage |-> 0, workingSet |-> 0],
   network |-> [rxBytes |-> 0, rxErrors |-> 0, txBytes |-> 0, txErrors |-> 0],
   filesystem |-> <<>>]

\* Mutant: every filesystem column adds an entry of its own.
setFsAppending(stats, field, x) ==
  LET zero == [device |-> "", limit |-> 0, usage |-> 0]
  IN  [stats EXCEPT !.filesystem = Append(@, [zero EXCEPT ![field] = x])]

\* Lines 222-226, 232-236, 242-246: the field of filesystem slot 0 is set,
\* the slot created when there is none.
setFs(stats, field, x) ==
  LET zero == [device |-> "", limit |-> 0, usage |-> 0]
  IN  IF Len(stats.filesystem) = 0
        THEN [stats EXCEPT !.filesystem = << [zero EXCEPT ![field] = x] >>]
        ELSE [stats EXCEPT !.filesystem[1][field] = x]

\* One iteration of the loop of valuesToContainerStats (lines 186-250) on
\* column col with value v: the stats after it, and the error it returns with.
columnToStats(stats, col, v) ==
  LET ok(st) == [stats |-> st, err |-> "none"]
      fail(e) == [stats |-> stats, err |-> e]
      n == convertToUint64(v)
      num(st) == IF n.err = "none" THEN ok(st)
                 ELSE fail("column has invalid value")
  IN  CASE col = colTimestamp ->
             IF v.type = "float64" /\ stats.timestamp.zero
               THEN LET f == GoDiv(v.v, FloatUnit)
                    IN  ok([stats EXCEPT !.timestamp =
                              timeUnix(GoDiv(f, 1000), GoMod(f, 1000) * 1000000)])
               ELSE ok(stats)
        [] col = colMachineName ->
             IF v.type = "string"
               THEN IF v.v # MachineName THEN fail("different machine") ELSE ok(stats)
               ELSE fail("machine name field is not a string")
        [] col = colCpuCumulativeUsage -> num([stats EXCEPT !.cpu.total = n.v])
        [] col = colMemoryUsage -> num([stats EXCEPT !.memory.usage = n.v])
        [] col = colMemoryWorkingSet -> num([stats EXCEPT !.memory.workingSet = n.v])
        [] col = colRxBytes -> num([stats EXCEPT !.network.rxBytes = n.v])
        [] col = colRxErrors -> num([stats EXCEPT !.network.rxErrors = n.v])
        [] col = colTxBytes -> num([stats EXCEPT !.network.txBytes = n.v])
        [] col = colTxErrors -> num([stats EXCEPT !.network.txErrors = n.v])
        [] col = colFsDevice ->
             IF v.type = "string" THEN ok(setFs(stats, "device", v.v))
             ELSE fail("filesystem name field is not a string")
        [] col = colFsLimit ->
             IF n.err = "none" THEN ok(setFs(stats, "limit", n.v))
             ELSE fail("filesystem limit field invalid")
        [] col = colFsUsage ->
             IF n.err = "none" THEN ok(setFs(stats, "usage", n.v))
             ELSE fail("filesystem usage field invalid")
        [] OTHER -> ok(stats)

\* The loop of valuesToContainerStats from column i on.
RECURSIVE columnsToStats(_, _, _, _)
columnsToStats(stats, columns, values, i) ==
  IF i > Len(columns) THEN [stats |-> stats, err |-> "none"]
  ELSE LET r == columnToStats(stats, columns[i], values[i])
       IN  IF r.err # "none" THEN [stats |-> Nil, err |-> r.err]
           ELSE columnsToStats(r.stats, columns, values, i + 1)

\* Mutant: the host column is not looked at.
valuesToContainerStatsAnyHost(columns, values) ==
  columnsToStats(emptyStats,
                 [i \in DOMAIN columns |->
                    IF columns[i] = colMachineName THEN "ignored" ELSE columns[i]],
                 values, 1)

\* valuesToContainerStats (lines 177-253): the record and the error.
valuesToContainerStats(columns, values) ==
  columnsToStats(emptyStats, columns, values, 1)

\* ------------------------------------------------------------------ state
VARIABLES
  client,          \* self.client: "client" or "nil"
  bufferDuration,  \* self.bufferDuration
  lastWrite,       \* self.lastWrite
  series,          \* self.series: the pending batch
  lock,            \* self.lock: the thread holding it, or NoThread
  readyToFlush,    \* self.readyToFlush: "default" or an overriding predicate
  now,             \* the wall clock
  pc,              \* each thread's position
  op,              \* each thread's current (or last) operation
  arg,             \* each thread's arguments of that operation
  seriesToFlush,   \* AddStats's local seriesToFlush
  ready,           \* what self.readyToFlush() returned in this AddStats: "true", "false"
  ret,             \* what the thread's last operation returned
  flushing,        \* index in batches of the batch the thread swapped out
  store,           \* the store: the batches WriteSeriesWithTimePrecision received
  batches,         \* history: every batch swapped out, in swap order
  evals,           \* history: every call of the predicate at line 275
  nextId,          \* history: the id of the next series allocated
  calls,           \* history: operations invoked so far
  queries,         \* the store: the queries self.client.Query received
  answer,          \* what the store answered to the thread's last query
  recent           \* what the thread's last RecentStats returned

vars == << client, bufferDuration, lastWrite, series, lock, readyToFlush, now,
           pc, op, arg, seriesToFlush, ready, ret, flushing, store, batches, evals,
           nextId, calls, queries, answer, recent >>

readVars == << queries, answer, recent >>
shared == << client, bufferDuration, lastWrite, series, lock, readyToFlush >>
history == << store, batches, evals, nextId >>

\* The buffering durations New is called with: by the concurrent callers'
\* program, and by the sequential caller's.
BufferDurations == {1}
SeqBufferDurations == {1, 2}
\* The predicates OverrideReadyToFlush installs: constant functions.
Overrides == {"always", "never"}

\* A store answer to a query: the error, or the series.
NoAnswer == [err |-> "none", series |-> <<>>]
\* The pair RecentStats returns: the list (nil is the empty list) and the error.
NoResult == [stats |-> <<>>, err |-> "none"]

\* New (lines 370-379): lastWrite is time.Now(), series is empty, the
\* predicate is defaultReadyToFlush. The clock starts at 0.
New(durations) ==
  /\ client = "client"
  /\ bufferDuration \in durations
  /\ lastWrite = 0
  /\ series = <<>>
  /\ lock = NoThread
  /\ readyToFlush = "default"
  /\ now = 0
  /\ pc = [t \in Threads |-> "idle"]
  /\ op = [t \in Threads |-> "none"]
  /\ arg = [t \in Threads |-> Nil]
  /\ seriesToFlush = [t \in Threads |-> <<>>]
  /\ ready = [t \in Threads |-> "none"]
  /\ ret = [t \in Threads |-> "none"]
  /\ flushing = [t \in Threads |-> 0]
  /\ store = <<>>
  /\ batches = <<>>
  /\ evals = <<>>
  /\ nextId = 1
  /\ calls = 0
  /\ queries = <<>>
  /\ answer = [t \in Threads |-> NoAnswer]
  /\ recent = [t \in Threads |-> NoResult]

Init == New(BufferDurations)
InitSeq == New(SeqBufferDurations)

\* Mutant: the elapsed time must exceed the buffering duration.
defaultReadyToFlushStrict == now - lastWrite > bufferDuration

\* defaultReadyToFlush (line 260): time.Since(self.lastWrite) >= self.bufferDuration.
defaultReadyToFlush == now - lastWrite >= bufferDuration

\* The call self.readyToFlush() of line 275.
callReadyToFlush ==
  CASE readyToFlush = "default" -> defaultReadyToFlush
    [] readyToFlush = "always" -> TRUE
    [] readyToFlush = "never" -> FALSE

\* Mutant: the check forgets stats.Memory.
invalidStatsNoMemory(stats) == stats = Nil \/ stats.cpu = Nil

\* The check of line 264.
invalidStats(stats) == stats = Nil \/ stats.cpu = Nil \/ stats.memory = Nil

CanCall(t) == pc[t] \in {"idle", "returned"} /\ calls < MaxCalls

\* A thread enters an operation: its locals are fresh.
Enter(t, o, a, at) ==
  /\ op' = [op EXCEPT ![t] = o]
  /\ arg' = [arg EXCEPT ![t] = a]
  /\ pc' = [pc EXCEPT ![t] = at]
  /\ seriesToFlush' = [seriesToFlush EXCEPT ![t] = <<>>]
  /\ ready' = [ready EXCEPT ![t] = "none"]
  /\ flushing' = [flushing EXCEPT ![t] = 0]
  /\ calls' = calls + 1

\* AddStats, lines 263-267: an invalid sample returns nil at once; a valid
\* one goes on to take the lock.
AddStats(t, ref, stats) ==
  /\ CanCall(t)
  /\ Enter(t, "AddStats", [ref |-> ref, stats |-> stats],
           IF invalidStats(stats) THEN "returned" ELSE "lock")
  /\ ret' = [ret EXCEPT ![t] = IF invalidStats(stats) THEN "nil" ELSE "none"]
  /\ UNCHANGED << readVars, shared, now, history >>

\* self.lock.Lock() (line 270).
Lock(t) ==
  /\ pc[t] = "lock"
  /\ lock = NoThread
  /\ lock' = t
  /\ pc' = [pc EXCEPT ![t] = "critical"]
  /\ UNCHANGED << readVars, client, bufferDuration, lastWrite, series, readyToFlush, now,
                  op, arg, seriesToFlush, ready, ret, flushing, history, calls >>

\* Mutant: the swap leaves the swapped-out rows in self.series.
pendingAfterSwapKept(appended) == appended

\* Line 277: self.series after the swap is a new empty slice.
pendingAfterSwap(appended) == <<>>

\* Lines 273-279, under the lock: append the rows, call the predicate and,
\* when it returns true, swap the pending batch out and set lastWrite.
\* Dereferencing a nil stats.Cpu or stats.Memory in containerStatsToValues
\* panics; the deferred Unlock runs.
Critical(t) ==
  /\ pc[t] = "critical"
  /\ lock = t
  /\ IF invalidStats(arg[t].stats)
       THEN /\ pc' = [pc EXCEPT ![t] = "panicked"]
            /\ lock' = NoThread
            /\ UNCHANGED << series, lastWrite, seriesToFlush, ready, flushing, history >>
       ELSE LET rows == rowsOf(nextId, arg[t].ref, arg[t].stats)
                appended == series \o rows
                fire == callReadyToFlush
            IN  /\ nextId' = nextId + Len(rows)
                /\ ready' = [ready EXCEPT ![t] = IF fire THEN "true" ELSE "false"]
                /\ evals' = Append(evals,
                       [by |-> t, result |-> fire, policy |-> readyToFlush, at |-> now,
                        before |-> Len(series), first |-> nextId,
                        last |-> nextId + Len(rows) - 1])
                /\ IF fire
                     THEN /\ seriesToFlush' = [seriesToFlush EXCEPT ![t] = appended]
                          /\ series' = pendingAfterSwap(appended)
                          /\ lastWrite' = now
                          /\ batches' = Append(batches,
                                 [rows |-> appended, by |-> t, at |-> now,
                                  status |-> "swapped"])
                          /\ flushing' = [flushing EXCEPT ![t] = Len(batches) + 1]
                     ELSE /\ series' = appended
                          /\ UNCHANGED << seriesToFlush, lastWrite, batches, flushing >>
                /\ pc' = [pc EXCEPT ![t] = "unlock"]
                /\ UNCHANGED << lock, store >>
  /\ UNCHANGED << readVars, client, bufferDuration, readyToFlush, now, op, arg, ret, calls >>

\* Mutant: the Unlock is deferred to the end of AddStats, not of the closure.
lockAfterSectionHeld(t) == t

\* The holder of self.lock once the closure of lines 268-280 has returned: the
\* deferred Unlock of line 271 has run.
lockAfterSection(t) == NoThread

\* Mutant: a batch of one row is not written.
shouldWriteMoreThanOne(toFlush) == Len(toFlush) > 1

\* Line 281: the store write is made when seriesToFlush holds rows.
shouldWrite(toFlush) == Len(toFlush) > 0

\* The deferred self.lock.Unlock() (line 271), then the test of line 281:
\* with nothing to flush AddStats returns nil (line 288).
Unlock(t) ==
  /\ pc[t] = "unlock"
  /\ lock = t
  /\ lock' = lockAfterSection(t)
  /\ IF shouldWrite(seriesToFlush[t])
       THEN /\ pc' = [pc EXCEPT ![t] = "write"]
            /\ UNCHANGED ret
       ELSE /\ pc' = [pc EXCEPT ![t] = "returned"]
            /\ ret' = [ret EXCEPT ![t] = "nil"]
  /\ UNCHANGED << readVars, client, bufferDuration, lastWrite, series, readyToFlush, now,
                  op, arg, seriesToFlush, ready, flushing, history, calls >>

\* Mutant: the store files a batch before the ones it already received.
WriteStartPrepending(t) ==
  /\ pc[t] = "write"
  /\ IF client = "nil"
       THEN /\ pc' = [pc EXCEPT ![t] = "panicked"]
            /\ batches' = [batches EXCEPT ![flushing[t]].status = "panicked"]
            /\ UNCHANGED store
       ELSE /\ pc' = [pc EXCEPT ![t] = "writing"]
            /\ batches' = [batches EXCEPT ![flushing[t]].status = "writing"]
            /\ store' = << [rows |-> seriesToFlush[t], by |-> t] >> \o store
  /\ UNCHANGED << readVars, shared, now, op, arg, seriesToFlush, ready, ret, flushing,
                  evals, nextId, calls >>

\* Line 282: self.client is read and WriteSeriesWithTimePrecision is called with
\* seriesToFlush. On a nil client the call panics.
WriteStart(t) ==
  /\ pc[t] = "write"
  /\ IF client = "nil"
       THEN /\ pc' = [pc EXCEPT ![t] = "panicked"]
            /\ batches' = [batches EXCEPT ![flushing[t]].status = "panicked"]
            /\ UNCHANGED store
       ELSE /\ pc' = [pc EXCEPT ![t] = "writing"]
            /\ batches' = [batches EXCEPT ![flushing[t]].status = "writing"]
            /\ store' = Append(store, [rows |-> seriesToFlush[t], by |-> t])
  /\ UNCHANGED << readVars, shared, now, op, arg, seriesToFlush, ready, ret, flushing,
                  evals, nextId, calls >>

\* Mutant: the error of the store write is swallowed.
addStatsResultSwallowed(writeFailed) == "nil"

\* Lines 283-288: what AddStats returns after the store write returned an
\* error (wrapped) or none.
addStatsResult(writeFailed) == IF writeFailed THEN "error" ELSE "nil"

\* The store write returns, with an error or without; AddStats returns. The
\* buffer is not touched.
WriteReturn(t, writeFailed) ==
  /\ pc[t] = "writing"
  /\ pc' = [pc EXCEPT ![t] = "returned"]
  /\ ret' = [ret EXCEPT ![t] = addStatsResult(writeFailed)]
  /\ batches' = [batches EXCEPT
                    ![flushing[t]].status = IF writeFailed THEN "failed" ELSE "ok"]
  /\ UNCHANGED << readVars, shared, now, op, arg, seriesToFlush, ready, flushing, store,
                  evals, nextId, calls >>

WriteOk(t) == WriteReturn(t, FALSE)
WriteFail(t) == WriteReturn(t, TRUE)

\* OverrideReadyToFlush is entered; line 256 is its one statement.
OverrideCall(t, p) ==
  /\ CanCall(t)
  /\ Enter(t, "OverrideReadyToFlush", [predicate |-> p], "override")
  /\ ret' = [ret EXCEPT ![t] = "none"]
  /\ UNCHANGED << readVars, shared, now, history >>

\* OverrideReadyToFlush, line 256: self.readyToFlush is written, no lock held.
OverrideReadyToFlush(t) ==
  /\ pc[t] = "override"
  /\ readyToFlush' = arg[t].predicate
  /\ pc' = [pc EXCEPT ![t] = "returned"]
  /\ ret' = [ret EXCEPT ![t] = "nil"]
  /\ UNCHANGED << readVars, client, bufferDuration, lastWrite, series, lock, now,
                  op, arg, seriesToFlush, ready, flushing, history, calls >>

\* Close is entered; line 328 is next.
CloseCall(t) ==
  /\ CanCall(t)
  /\ Enter(t, "Close", Nil, "close")
  /\ ret' = [ret EXCEPT ![t] = "none"]
  /\ UNCHANGED << readVars, shared, now, history >>

\* Mutant: Close also empties the pending batch.
CloseClearing(t) ==
  /\ pc[t] = "close"
  /\ client' = "nil"
  /\ series' = <<>>
  /\ pc' = [pc EXCEPT ![t] = "returned"]
  /\ ret' = [ret EXCEPT ![t] = "nil"]
  /\ UNCHANGED << readVars, bufferDuration, lastWrite, lock, readyToFlush, now,
                  op, arg, seriesToFlush, ready, flushing, history, calls >>

\* Close, lines 328-329: self.client = nil, no lock held; returns nil.
Close(t) ==
  /\ pc[t] = "close"
  /\ client' = "nil"
  /\ pc' = [pc EXCEPT ![t] = "returned"]
  /\ ret' = [ret EXCEPT ![t] = "nil"]
  /\ UNCHANGED << readVars, bufferDuration, lastWrite, series, lock, readyToFlush, now,
                  op, arg, seriesToFlush, ready, flushing, history, calls >>

\* ------------------------------------------------------------ RecentStats
\* Mutant: RecentStats returns at once for a negative numStats only.
noStatsWantedNegative(numStats) == numStats < 0

\* Line 292: with numStats zero RecentStats returns at once.
noStatsWanted(numStats) == numStats = 0

\* Lines 297-300: the query; the limit clause is there for a positive numStats.
queryOf(containerName, numStats) ==
  [table |-> TableName, container |-> containerName, machine |-> MachineName,
   limit |-> IF numStats > 0 THEN <<numStats>> ELSE <<>>]

Reverse(s) == [i \in 1..Len(s) |-> s[Len(s) + 1 - i]]

\* Mutant: the points of a series are visited from the first to the last.
pointOrderForward(points) == points

\* Line 312: the points of a series are visited from the last to the first.
pointOrder(points) == Reverse(points)

\* Lines 309-313: the rows (columns and values) in the order the loops visit
\* them, from series i down to the first.
RECURSIVE visitOrder(_, _)
visitOrder(ss, i) ==
  IF i = 0 THEN <<>>
  ELSE [j \in 1..Len(ss[i].points) |->
          [columns |-> ss[i].columns, values |-> pointOrder(ss[i].points)[j]]]
       \o visitOrder(ss, i - 1)

\* Mutant: the samples reconstructed so far are returned with the error.
listOnErrorPartial(statsList) == statsList

\* Lines 315-317: what RecentStats returns as its list when a row fails.
listOnError(statsList) == <<>>

\* Lines 314-321 over the rows from the i-th on: each row is reconstructed and
\* appended to statsList; the first error ends the call.
RECURSIVE collectStats(_, _, _)
collectStats(rows, i, statsList) ==
  IF i > Len(rows) THEN [stats |-> statsList, err |-> "none"]
  ELSE LET r == valuesToContainerStats(rows[i].columns, rows[i].values)
       IN  IF r.err # "none" THEN [stats |-> listOnError(statsList), err |-> r.err]
           ELSE collectStats(rows, i + 1, Append(statsList, r.stats))

\* Lines 301-324: what RecentStats returns for the store's answer.
recentStatsOf(a) ==
  IF a.err # "none" THEN [stats |-> <<>>, err |-> a.err]
  ELSE collectStats(visitOrder(a.series, Len(a.series)), 1, <<>>)

\* RecentStats is entered, lines 291-294: with numStats zero it returns
\* (nil, nil); else the query is next.
RecentStats(t, containerName, numStats) ==
  /\ CanCall(t)
  /\ Enter(t, "RecentStats", [containerName |-> containerName, numStats |-> numStats],
           IF noStatsWanted(numStats) THEN "returned" ELSE "query")
  /\ ret' = [ret EXCEPT ![t] = IF noStatsWanted(numStats) THEN "nil" ELSE "none"]
  /\ recent' = [recent EXCEPT ![t] = NoResult]
  /\ answer' = [answer EXCEPT ![t] = NoAnswer]
  /\ UNCHANGED << queries, shared, now, history >>

\* Lines 297-324: self.client is read, no lock held, and Query is called (on a
\* nil client the call panics); the store answers a; the rows are
\* reconstructed and RecentStats returns.
Query(t, a) ==
  /\ pc[t] = "query"
  /\ IF client = "nil"
       THEN /\ pc' = [pc EXCEPT ![t] = "panicked"]
            /\ UNCHANGED << queries, answer, recent, ret >>
       ELSE /\ queries' = Append(queries,
                                 queryOf(arg[t].containerName, arg[t].numStats))
            /\ answer' = [answer EXCEPT ![t] = a]
            /\ recent' = [recent EXCEPT ![t] = recentStatsOf(a)]
            /\ ret' = [ret EXCEPT ![t] =
                         IF recentStatsOf(a).err = "none" THEN "nil" ELSE "error"]
            /\ pc' = [pc EXCEPT ![t] = "returned"]
  /\ UNCHANGED << shared, now, op, arg, seriesToFlush, ready, flushing, history, calls >>

\* The wall clock advances.
Tick ==
  /\ now < MaxTime
  /\ now' = now + 1
  /\ UNCHANGED << readVars, shared, pc, op, arg, seriesToFlush, ready, ret, flushing,
                  history, calls >>

\* The steps of a thread inside an operation.
Step(t) ==
  \/ Lock(t)
  \/ Critical(t)
  \/ Unlock(t)
  \/ WriteStart(t)
  \/ WriteOk(t)
  \/ WriteFail(t)
  \/ OverrideReadyToFlush(t)
  \/ Close(t)

\* Concurrent callers.
Next ==
  \/ \E t \in Threads, ref \in FewRefs, stats \in FewStats : AddStats(t, ref, stats)
  \/ \E t \in Threads, p \in Overrides : OverrideCall(t, p)
  \/ \E t \in Threads : CloseCall(t)
  \/ \E t \in Threads : Step(t)
  \/ Tick

Spec == Init /\ [][Next]_vars

\* One sequential caller of AddStats, with every shape of sample and reference.
NextSeq ==
  \/ /\ calls < MaxSeqCalls
     /\ \E ref \in Refs, stats \in SomeStats : AddStats("t1", ref, stats)
  \/ Lock("t1")
  \/ Critical("t1")
  \/ Unlock("t1")
  \/ WriteStart("t1")
  \/ WriteOk("t1")
  \/ WriteFail("t1")
  \/ Tick

SpecSeq == InitSeq /\ [][NextSeq]_vars

\* ------------------------------------------------- one row from the store
\* The longest row the store returns to the reader of single rows, and the
\* number of RecentStats calls that reader makes.
MaxCols == 3
MaxRowCalls == 1

\* The values of a metric column: every type convertToUint64 knows, negative,
\* zero-free, whole and fractional, nil and a string.
MetricValues ==
  { Val("uint64", 7), Val("uint32", 6), Val("int", 3), Val("int64", 0 - 1),
    Val("int32", 0 - 2), Val("float64", 9 * FloatUnit),
    Val("float64", 7 * FloatUnit + 5),
    Val("float64", 0 - 5), Val("string", "x"), Val("nil", 0) }

\* The (column, value) pairs a row is made of: the host column with the
\* storage's host, another host and a number; a time; a metric column with
\* each metric value; the filesystem columns with good and bad values; a
\* column valuesToContainerStats does not know.
RowPairs ==
  { [col |-> colMachineName, v |-> Val("string", MachineName)],
    [col |-> colMachineName, v |-> Val("string", "host2")],
    [col |-> colMachineName, v |-> Val("float64", 5 * FloatUnit)],
    [col |-> colTimestamp, v |-> Val("float64", 1500 * FloatUnit)],
    [col |-> colFsDevice, v |-> Val("string", "/dev/sda1")],
    [col |-> colFsDevice, v |-> Val("string", "/dev/sdb1")],
    [col |-> colFsDevice, v |-> Val("float64", 4 * FloatUnit)],
    [col |-> colFsLimit, v |-> Val("float64", 100 * FloatUnit)],
    [col |-> colFsLimit, v |-> Val("float64", 200 * FloatUnit)],
    [col |-> colFsUsage, v |-> Val("float64", 40 * FloatUnit)],
    [col |-> "extra", v |-> Val("string", "y")] }
  \cup { [col |-> colCpuCumulativeUsage, v |-> v] : v \in MetricValues }

SeqsUpTo(S, n) == UNION { [1..k -> S] : k \in 0..n }

\* The store's answer made of one series with one point.
rowAnswer(row) ==
  [err |-> "none",
   series |-> << [name |-> TableName,
                  columns |-> [i \in DOMAIN row |-> row[i].col],
                  points |-> << [i \in DOMAIN row |-> row[i].v] >>] >>]
RowAnswers == { rowAnswer(row) : row \in SeqsUpTo(RowPairs, MaxCols) }

\* One sequential caller of RecentStats to whom the store returns one row.
NextRow ==
  \/ /\ calls < MaxRowCalls
     /\ RecentStats("t1", "/docker/c1", 1)
  \/ /\ pc["t1"] = "query"
     /\ \E a \in RowAnswers : Query("t1", a)

SpecRow == Init /\ [][NextRow]_vars

\* ------------------------------------------------ a reader and the store
\* The most points the store returns to one query, and the number of calls
\* the reader makes.
MaxPoints == 3
MaxReadCalls == 2

\* The columns of the series the store returns, and a point of time t (in
\* milliseconds, as line 190 reads it) of the storage's host.
ReadColumns == <<colTimestamp, colMachineName, colCpuCumulativeUsage>>
pointAt(t) ==
  << Val("float64", t * FloatUnit), Val("string", MachineName),
     Val("float64", 7 * FloatUnit) >>
\* The points: three good ones, one of another host and one with a negative
\* counter.
ReadPoints ==
  { pointAt(30), pointAt(20), pointAt(10),
    [pointAt(20) EXCEPT ![2] = Val("string", "host2")],
    [pointAt(20) EXCEPT ![3] = Val("float64", 0 - 7 * FloatUnit)] }

\* The points pts cut into series after the positions in cuts, from point
\* start on.
RECURSIVE cutSeries(_, _, _)
cutSeries(pts, cuts, start) ==
  IF start > Len(pts) THEN <<>>
  ELSE LET ends == { c \in cuts : c >= start /\ c < Len(pts) }
           e == IF ends = {} THEN Len(pts)
                ELSE CHOOSE c \in ends : \A d \in ends : c <= d
       IN  << [name |-> TableName, columns |-> ReadColumns,
               points |-> SubSeq(pts, start, e)] >>
           \o cutSeries(pts, cuts, e + 1)

\* What the store may answer: an error, or up to MaxPoints points in any
\* order, in one series or split into two at any place.
ReadAnswers ==
  { [err |-> "query failed", series |-> <<>>] }
  \cup { [err |-> "none", series |-> cutSeries(pts, {cut}, 1)] :
           pts \in SeqsUpTo(ReadPoints, MaxPoints),
           cut \in 0..(MaxPoints - 1) }

\* The calls of RecentStats the reader makes: for no sample, of two
\* containers, and for all there are (the reader of single rows asks with a
\* limit).
ReadCalls ==
  { [containerName |-> "/docker/c1", numStats |-> 0],
    [containerName |-> "/docker/c2", numStats |-> 0],
    [containerName |-> "/docker/c1", numStats |-> 0 - 1] }

\* One sequential caller that appends and closes, and then reads.
NextRead ==
  \/ /\ calls < MaxReadCalls
     /\ op["t1"] # "RecentStats"
     /\ \/ AddStats("t1", CHOOSE ref \in FewRefs : TRUE, BaseStats)
        \/ CloseCall("t1")
  \/ /\ calls < MaxReadCalls
     /\ \E c \in ReadCalls : RecentStats("t1", c.containerName, c.numStats)
  \/ Lock("t1")
  \/ Critical("t1")
  \/ Unlock("t1")
  \/ WriteStart("t1")
  \/ WriteOk("t1")
  \/ WriteFail("t1")
  \/ Close("t1")
  \/ /\ pc["t1"] = "query"
     /\ \E a \in ReadAnswers : Query("t1", a)
  \/ Tick

SpecRead == Init /\ [][NextRead]_vars

\* ------------------------------------------------------- access discipline
\* The fields of influxdbStorage a thread's next step reads or writes, and
\* whether it holds self.lock while it does.
Access(t) ==
  CASE pc[t] = "critical" ->
         { [field |-> "series", write |-> TRUE, locked |-> lock = t],
           [field |-> "readyToFlush", write |-> FALSE, locked |-> lock = t],
           [field |-> "lastWrite", write |-> TRUE, locked |-> lock = t] }
    [] pc[t] = "write" ->
         { [field |-> "client", write |-> FALSE, locked |-> lock = t] }
    [] pc[t] = "override" ->
         { [field |-> "readyToFlush", write |-> TRUE, locked |-> lock = t] }
    [] pc[t] = "close" ->
         { [field |-> "client", write |-> TRUE, locked |-> lock = t] }
    [] OTHER -> {}

\* ------------------------------------------------------------------ helpers
IdSet(rows) == { rows[i].id : i \in DOMAIN rows }
IdSeq(rows) == [i \in DOMAIN rows |-> rows[i].id]
Interval(a, b) == [i \in 1..(b - a + 1) |-> a + i - 1]
\* Where the row with this id is: in the pending batch (0) or in batch k.
Places(id) ==
  { <<0, i>> : i \in { j \in DOMAIN series : series[j].id = id } }
  \cup UNION { { <<k, i>> : i \in { j \in DOMAIN batches[k].rows :
                                         batches[k].rows[j].id = id } } :
               k \in DOMAIN batches }
\* The store writes that received batch k.
WritesOf(k) == { j \in DOMAIN store : store[j].rows = batches[k].rows }
Returned(t) == pc[t] = "returned" /\ op[t] = "AddStats"

\* ------------------------------------------------------------------- claims
\* C1: no row is flushed twice. Every row appended so far is in exactly one
\* place, the pending batch or one swapped-out batch; the store write receives
\* only swapped-out batches, each at most once, and exactly once when the
\* AddStats that swapped it out has returned; the batch a thread is writing is
\* the batch as it was swapped out, and every pending row was appended after
\* every swapped-out one.
C1_NoRowFlushedTwice ==
  /\ \A id \in 1..(nextId - 1) : Cardinality(Places(id)) = 1
  /\ \A j \in DOMAIN store : \E k \in DOMAIN batches : j \in WritesOf(k)
  /\ \A k \in DOMAIN batches : Cardinality(WritesOf(k)) <= 1
  /\ \A t \in Threads :
        /\ Returned(t) /\ flushing[t] # 0 => Cardinality(WritesOf(flushing[t])) = 1
        /\ pc[t] \in {"write", "writing"} =>
              seriesToFlush[t] = batches[flushing[t]].rows
  /\ \A k \in DOMAIN batches : \A a \in IdSet(batches[k].rows) :
        \A b \in IdSet(series) : a < b

\* C1 witness: two batches swapped out by different threads have both reached
\* the store while a later row is pending.
C1_Witness ==
  /\ Len(store) = 2
  /\ store[1].by # store[2].by
  /\ Len(series) > 0

\* C2: no thread holds the lock at or inside the store write; the holder of
\* the lock is always inside the in-memory section, so it never waits for
\* the store.
C2_WriteOutsideLock ==
  \A t \in Threads :
    /\ pc[t] \in {"write", "writing"} => lock # t
    /\ lock = t => pc[t] \in {"critical", "unlock"}

\* C2 witness: while one thread is inside the store write, another AddStats
\* has appended to the pending batch and returned.
C2_Witness ==
  \E t \in Threads, u \in Threads :
    /\ pc[t] = "writing"
    /\ Returned(u) /\ ready[u] = "false" /\ ret[u] = "nil"
    /\ flushing[t] = Len(batches)
    /\ Len(series) > 0

\* The evaluations of the predicate that returned true, up to the i-th.
TrueEvals(i) == { j \in 1..i : evals[j].result }
\* The id of the first row not yet swapped out before the i-th evaluation.
FirstPending(i) ==
  IF TrueEvals(i - 1) = {} THEN 1
  ELSE evals[CHOOSE j \in TrueEvals(i - 1) :
               \A m \in TrueEvals(i - 1) : m <= j].last + 1

\* C3: one flush per evaluation that returned true, none for one that
\* returned false. The k-th batch is swapped out by the k-th true evaluation
\* and holds, in order, the rows of every append since the one before; the
\* pending batch holds the rows appended since the last true evaluation, and
\* is empty right after one. An AddStats that has returned made one store
\* write when its evaluation was true and none when it was false.
C3_FlushPerTrueEvaluation ==
  /\ Len(batches) = Cardinality(TrueEvals(Len(evals)))
  /\ \A i \in TrueEvals(Len(evals)) :
        LET k == Cardinality(TrueEvals(i))
        IN  /\ batches[k].by = evals[i].by
            /\ IdSeq(batches[k].rows) = Interval(FirstPending(i), evals[i].last)
  /\ IdSeq(series) = Interval(FirstPending(Len(evals) + 1), nextId - 1)
  /\ Len(store) <= Len(batches)
  /\ \A t \in Threads :
        /\ pc[t] = "unlock" /\ ready[t] = "true" => series = <<>>
        /\ Returned(t) /\ ready[t] = "true" =>
              Cardinality(WritesOf(flushing[t])) = 1
        /\ Returned(t) /\ ready[t] = "false" =>
              flushing[t] = 0 /\ \A j \in DOMAIN store :
                                   IdSet(store[j].rows) \cap IdSet(series) = {}

\* C3 witness: an append that saw the predicate false, then one that saw it
\* true, and the batch of both in the store, the pending batch empty.
C3_Witness ==
  /\ Len(evals) = 2
  /\ ~evals[1].result /\ evals[2].result
  /\ evals[1].by # evals[2].by
  /\ Len(store) = 1
  /\ IdSeq(store[1].rows) = Interval(1, evals[2].last)
  /\ series = <<>>
  /\ Returned(evals[2].by)

\* C4: a failed store write makes the AddStats that swapped the batch out
\* return an error, and the batch is gone: its rows are not pending, in no
\* other batch and in no other store write, and every pending row was
\* appended after the swap.
C4_FailedBatchIsDropped ==
  /\ \A k \in DOMAIN batches :
        batches[k].status = "failed" =>
          /\ IdSet(batches[k].rows) \cap IdSet(series) = {}
          /\ \A m \in DOMAIN batches \ {k} :
                IdSet(batches[m].rows) \cap IdSet(batches[k].rows) = {}
          /\ Cardinality({ j \in DOMAIN store :
                  IdSet(store[j].rows) \cap IdSet(batches[k].rows) # {} }) = 1
          /\ \A a \in IdSet(batches[k].rows) : \A b \in IdSet(series) : a < b
          /\ \A t \in Threads :
                Returned(t) /\ flushing[t] = k => ret[t] = "error"
  /\ \A t \in Threads :
        ret[t] = "error" =>
          /\ op[t] = "AddStats" /\ flushing[t] # 0
          /\ batches[flushing[t]].status = "failed"

\* C4 witness: a store write failed, its AddStats returned the error, a later
\* batch was written and a row appended after that is pending.
C4_Witness ==
  \E t \in Threads :
    /\ Returned(t) /\ ret[t] = "error"
    /\ flushing[t] = 1 /\ Len(batches) = 2
    /\ batches[2].status = "ok"
    /\ Len(series) > 0

\* C7 as claimed: no two threads are about to access the same field, one of
\* them writing, unless both hold the lock.
C7_NoDataRace ==
  \A t \in Threads : \A u \in Threads \ {t} :
    \A a \in Access(t), b \in Access(u) :
      a.field = b.field /\ (a.write \/ b.write) => a.locked /\ b.locked

\* C5: an AddStats whose sample is nil or lacks the CPU or the memory record
\* returns nil at once and changes nothing: the pending batch, lastWrite, the
\* lock, the predicate and the client are as before, the predicate was not
\* called and the store received nothing.
MissingData(stats) == stats = Nil \/ stats.cpu = Nil \/ stats.memory = Nil
EntersAddStats(t) ==
  /\ calls' = calls + 1
  /\ pc[t] \in {"idle", "returned"}
  /\ op'[t] = "AddStats"
  /\ \A u \in Threads \ {t} : op'[u] = op[u] /\ arg'[u] = arg[u]
C5_InvalidSampleIsDropped ==
  [][\A t \in Threads :
       EntersAddStats(t) /\ MissingData(arg'[t].stats) =>
         /\ pc'[t] = "returned" /\ ret'[t] = "nil"
         /\ ready'[t] = "none" /\ seriesToFlush'[t] = <<>>
         /\ UNCHANGED << series, lastWrite, lock, readyToFlush, client,
                         store, batches, evals, nextId >>]_vars

\* C5 witness: an AddStats with a sample without memory data has returned nil
\* while rows are pending.
C5_Witness ==
  \E t \in Threads :
    /\ Returned(t) /\ ret[t] = "nil"
    /\ arg[t].stats # Nil /\ arg[t].stats.cpu # Nil /\ arg[t].stats.memory = Nil
    /\ Len(series) > 0

\* The time recorded by the last swap, whatever became of its store write;
\* the time of New when there was none.
LastSwapTime == IF batches = <<>> THEN 0 ELSE batches[Len(batches)].at
SwapTimeBefore(i) ==
  IF TrueEvals(i - 1) = {} THEN 0
  ELSE evals[CHOOSE j \in TrueEvals(i - 1) :
               \A m \in TrueEvals(i - 1) : m <= j].at
\* The swap time of the latest batch whose store write succeeded; the time of
\* New when there is none.
LastSuccessfulFlushTime ==
  LET okTimes == { batches[k].at : k \in { j \in DOMAIN batches :
                                              batches[j].status = "ok" } }
  IN  IF okTimes = {} THEN 0
      ELSE CHOOSE a \in okTimes : \A b \in okTimes : b <= a

\* C6 as claimed: when no flush is in progress, the default predicate is true
\* exactly when the time since the last successful flush is at least the
\* buffering duration.
C6_SinceLastSuccessfulFlush ==
  (\A t \in Threads : pc[t] \in {"idle", "returned"}) =>
    (defaultReadyToFlush <=> now - LastSuccessfulFlushTime >= bufferDuration)

\* C6 amended: the default predicate is true exactly when the time since the
\* last swap (the last flush triggered, whether its store write succeeded,
\* failed or is still running; the construction when there was none) is at
\* least the buffering duration, and every call of it returned just that.
C6_SinceLastSwap ==
  /\ defaultReadyToFlush <=> now - LastSwapTime >= bufferDuration
  /\ \A i \in DOMAIN evals :
        evals[i].policy = "default" =>
          (evals[i].result <=> evals[i].at - SwapTimeBefore(i) >= bufferDuration)

\* C6 witness: after a failed flush the predicate returned false although the
\* buffering duration had passed since the construction (no flush succeeded).
C6_Witness ==
  /\ Len(evals) = 2 /\ Len(batches) = 1
  /\ batches[1].status = "failed"
  /\ evals[2].policy = "default" /\ ~evals[2].result
  /\ evals[2].at >= bufferDuration

\* The rows the AddStats of thread t has just appended (t is at the Unlock):
\* the batch they are in, and the evaluation that followed the append.
TargetOf(t) == IF ready[t] = "true" THEN seriesToFlush[t] ELSE series
LastEval == evals[Len(evals)]
HasColumn(row, col) == \E i \in DOMAIN row.columns : row.columns[i] = col
ColumnValue(row, col) ==
  row.points[1][CHOOSE i \in DOMAIN row.columns : row.columns[i] = col]
Carries(row, col, value) == HasColumn(row, col) /\ ColumnValue(row, col) = value
NetworkColumns == {colRxBytes, colRxErrors, colTxBytes, colTxErrors}
CoreColumns == {colCpuCumulativeUsage, colMemoryUsage, colMemoryWorkingSet}
FsColumns == {colFsDevice, colFsLimit, colFsUsage}

\* C8 as claimed: every row AddStats appends has as many values as columns,
\* at least one, and carries the timestamp, the machine name and the
\* container name (alias[0] if there is one, else the name).
C8_DefaultColumns ==
  \A t \in Threads :
    pc[t] = "unlock" =>
      \A i \in (LastEval.before + 1)..Len(TargetOf(t)) :
        LET row == TargetOf(t)[i]
            ref == arg[t].ref
        IN  /\ Len(row.columns) = Len(row.points[1])
            /\ Len(row.columns) > 0
            /\ HasColumn(row, colTimestamp)
            /\ Carries(row, colMachineName, Val("string", MachineName))
            /\ Carries(row, colContainerName,
                       Val("string", IF Len(ref.aliases) > 0 THEN ref.aliases[1]
                                     ELSE ref.name))

\* C9: an AddStats of a valid sample with k filesystem entries appends 1 + k
\* rows after the rows already pending: the core-metrics row (with the four
\* network columns exactly when the sample has network stats), then the
\* filesystem rows in the order of the sample, the i-th with the device,
\* limit and usage of the i-th entry.
C9_RowsOfOneSample ==
  \A t \in Threads :
    pc[t] = "unlock" =>
      LET rows == TargetOf(t)
          st == arg[t].stats
          k == Len(st.filesystem)
          b == LastEval.before
          core == rows[b + 1]
      IN  /\ Len(rows) = b + 1 + k
          /\ IdSeq(rows) = Interval(LastEval.first - b, LastEval.last)
          /\ LastEval.last - LastEval.first + 1 = 1 + k
          /\ Carries(core, colCpuCumulativeUsage, Val("uint64", st.cpu.total))
          /\ Carries(core, colMemoryUsage, Val("uint64", st.memory.usage))
          /\ Carries(core, colMemoryWorkingSet, Val("uint64", st.memory.workingSet))
          /\ \A c \in NetworkColumns : HasColumn(core, c) <=> st.network # Nil
          /\ st.network # Nil =>
                /\ ColumnValue(core, colRxBytes) = Val("uint64", st.network.rxBytes)
                /\ ColumnValue(core, colRxErrors) = Val("uint64", st.network.rxErrors)
                /\ ColumnValue(core, colTxBytes) = Val("uint64", st.network.txBytes)
                /\ ColumnValue(core, colTxErrors) = Val("uint64", st.network.txErrors)
          /\ \A c \in FsColumns : ~HasColumn(core, c)
          /\ \A i \in 1..k :
                LET row == rows[b + 1 + i]
                    fs == st.filesystem[i]
                IN  /\ Carries(row, colFsDevice, Val("string", fs.device))
                    /\ Carries(row, colFsLimit, Val("uint64", fs.limit))
                    /\ Carries(row, colFsUsage, Val("uint64", fs.usage))
                    /\ \A c \in CoreColumns \cup NetworkColumns : ~HasColumn(row, c)

\* C9 witness: a sample with network stats and two different filesystem
\* entries has been appended after a row that was already pending.
C9_Witness ==
  \E t \in Threads :
    /\ pc[t] = "unlock"
    /\ LastEval.before > 0
    /\ arg[t].stats.network # Nil
    /\ Len(arg[t].stats.filesystem) = 2
    /\ arg[t].stats.filesystem[1] # arg[t].stats.filesystem[2]

\* C10 as claimed: the core-metrics row carries the sample's timestamp in
\* microseconds since the epoch, and the record reconstructed from the row as
\* the store returns it has the timestamp truncated to the microsecond.
C10_TimestampRoundTrip ==
  \A t \in Threads :
    pc[t] = "unlock" =>
      LET row == TargetOf(t)[LastEval.before + 1]
          micros == GoDiv(arg[t].stats.timestamp, 1000)
          back == valuesToContainerStats(row.columns, storeDecodeAll(row.points[1]))
      IN  /\ Carries(row, colTimestamp, Val("int64", micros))
          /\ back.err = "none"
          /\ back.stats.timestamp = timeUnix(0, micros * 1000)

\* The metrics of a sample and of a reconstructed record agree: CPU cumulative
\* usage, memory usage, working set and, when the sample has network stats,
\* the four network counters.
SameMetrics(st, back) ==
  /\ back.cpu.total = st.cpu.total
  /\ back.memory.usage = st.memory.usage
  /\ back.memory.workingSet = st.memory.workingSet
  /\ st.network # Nil =>
        /\ back.network.rxBytes = st.network.rxBytes
        /\ back.network.rxErrors = st.network.rxErrors
        /\ back.network.txBytes = st.network.txBytes
        /\ back.network.txErrors = st.network.txErrors

\* C11: for a valid sample without filesystem entries, reconstructing a record
\* from the columns and values of the core-metrics row AddStats appended
\* succeeds and yields the sample's CPU cumulative usage, memory usage,
\* working set and, when the sample has network stats, its network counters;
\* so does reconstructing it from the values as the store returns them.
C11_MetricRoundTrip ==
  \A t \in Threads :
    pc[t] = "unlock" /\ arg[t].stats.filesystem = <<>> =>
      LET row == TargetOf(t)[LastEval.before + 1]
          direct == valuesToContainerStats(row.columns, row.points[1])
          stored == valuesToContainerStats(row.columns, storeDecodeAll(row.points[1]))
      IN  /\ direct.err = "none" /\ SameMetrics(arg[t].stats, direct.stats)
          /\ stored.err = "none" /\ SameMetrics(arg[t].stats, stored.stats)
          /\ direct.stats.filesystem = <<>>

\* C11 witness: a sample with network stats and no filesystem entry has been
\* appended and its row reconstructs to the sample's non-zero counters.
C11_Witness ==
  \E t \in Threads :
    /\ pc[t] = "unlock" /\ arg[t].stats.filesystem = <<>>
    /\ arg[t].stats.network # Nil
    /\ LET row == TargetOf(t)[LastEval.before + 1]
           back == valuesToContainerStats(row.columns, row.points[1])
       IN  /\ back.err = "none"
           /\ back.stats.network.txBytes = 12 /\ back.stats.memory.workingSet = 3

\* The RecentStats of thread t has returned after the store answered with one
\* series of one point; the columns and the values of that row.
ReadOne(t) ==
  /\ pc[t] = "returned" /\ op[t] = "RecentStats"
  /\ answer[t].err = "none"
  /\ Len(answer[t].series) = 1 /\ Len(answer[t].series[1].points) = 1
ColsOf(t) == answer[t].series[1].columns
ValsOf(t) == answer[t].series[1].points[1]
\* The row has a host column that holds something else than the storage's host.
OtherHost(t) ==
  \E i \in DOMAIN ColsOf(t) :
    ColsOf(t)[i] = colMachineName /\ ValsOf(t)[i] # Val("string", MachineName)
\* A value no number can be made of: a negative signed integer or float, or a
\* value that is neither a number nor nil.
BadNumber(v) ==
  \/ v.type \in {"int", "int32", "int64", "float64"} /\ v.v < 0
  \/ v.type \notin {"int", "int32", "int64", "float64", "uint32", "uint64", "nil"}
MetricColumns == CoreColumns \cup NetworkColumns
\* Column i of the row makes the reconstruction fail.
FailsAt(t, i) ==
  LET col == ColsOf(t)[i]
      v == ValsOf(t)[i]
  IN  \/ col = colMachineName /\ v # Val("string", MachineName)
      \/ col \in MetricColumns \cup {colFsLimit, colFsUsage} /\ BadNumber(v)
      \/ col = colFsDevice /\ v.type # "string"
\* The first column of the row that makes the reconstruction fail (0: none).
FirstFailure(t) ==
  LET f == { i \in DOMAIN ColsOf(t) : FailsAt(t, i) }
  IN  IF f = {} THEN 0 ELSE CHOOSE i \in f : \A j \in f : i <= j

\* C12 as claimed: the reconstruction of a row whose host column holds a value
\* different from the storage's host fails with "different machine", whatever
\* the other columns and values are.
C12_AlwaysDifferentMachine ==
  \A t \in Threads :
    ReadOne(t) /\ OtherHost(t) => recent[t].err = "different machine"

\* C12 amended: the reconstruction of a row whose host column holds a value
\* different from the storage's host always fails and yields no record; the
\* error is "different machine" exactly when the first column of the row that
\* fails is a host column holding a string.
C12_OtherHostFails ==
  \A t \in Threads :
    ReadOne(t) =>
      /\ OtherHost(t) => recent[t].err # "none" /\ recent[t].stats = <<>>
      /\ recent[t].err = "different machine" <=>
            /\ FirstFailure(t) # 0
            /\ ColsOf(t)[FirstFailure(t)] = colMachineName
            /\ ValsOf(t)[FirstFailure(t)].type = "string"

\* C12 witness: a row whose second column holds another host, between two
\* metric columns, the last one with a string, failed with "different machine".
C12_Witness ==
  \E t \in Threads :
    /\ ReadOne(t)
    /\ ColsOf(t) = <<colCpuCumulativeUsage, colMachineName, colCpuCumulativeUsage>>
    /\ ValsOf(t)[2] = Val("string", "host2")
    /\ ValsOf(t)[3] = Val("string", "x")
    /\ recent[t] = [stats |-> <<>>, err |-> "different machine"]

\* The RecentStats of thread t, called with a non-zero count, has returned.
ReadDone(t) ==
  pc[t] = "returned" /\ op[t] = "RecentStats" /\ arg[t].numStats # 0
\* The points of the store's answer in the order the store returned them.
RECURSIVE StoreOrder(_, _)
StoreOrder(ss, i) ==
  IF i > Len(ss) THEN <<>>
  ELSE [j \in 1..Len(ss[i].points) |->
          [columns |-> ss[i].columns, values |-> ss[i].points[j]]]
       \o StoreOrder(ss, i + 1)
StorePoints(t) == StoreOrder(answer[t].series, 1)
\* The time of a store point, in milliseconds.
TimeMs(p) ==
  (p.values[CHOOSE i \in DOMAIN p.columns : p.columns[i] = colTimestamp]).v
    \div FloatUnit
Reconstructed(p) == valuesToContainerStats(p.columns, p.values)
\* The store returned its points in strictly descending order of time.
StoreDescending(t) ==
  \A i \in DOMAIN StorePoints(t) : \A j \in DOMAIN StorePoints(t) :
    i < j => TimeMs(StorePoints(t)[i]) > TimeMs(StorePoints(t)[j])

\* C13: a RecentStats with a non-zero count that returns without error returns
\* one sample per store point, the k-th sample being the reconstruction of
\* the k-th store point counted from the end (last series first and, inside a
\* series, last point first); so when the store returned its points in
\* descending order of time, the samples are in strictly ascending order.
C13_TimeAscending ==
  \A t \in Threads :
    ReadDone(t) /\ recent[t].err = "none" =>
      LET pts == StorePoints(t)
          n == Len(pts)
          out == recent[t].stats
      IN  /\ Len(out) = n
          /\ \A k \in 1..n :
                /\ out[k] = Reconstructed(pts[n + 1 - k]).stats
                /\ out[k].timestamp.ns = TimeMs(pts[n + 1 - k]) * 1000000
          /\ StoreDescending(t) =>
                \A i \in 1..n : \A j \in 1..n :
                  i < j => out[i].timestamp.ns < out[j].timestamp.ns

\* C13 witness: the store answered [S2{t=30, t=20}, S1{t=10}] and RecentStats
\* returned the samples of t=10, t=20, t=30.
C13_Witness ==
  \E t \in Threads :
    /\ ReadDone(t)
    /\ Len(answer[t].series) = 2
    /\ answer[t].series[1].points = <<pointAt(30), pointAt(20)>>
    /\ answer[t].series[2].points = <<pointAt(10)>>
    /\ Len(recent[t].stats) = 3
    /\ recent[t].stats[1].timestamp.ns = 10000000
    /\ recent[t].stats[2].timestamp.ns = 20000000
    /\ recent[t].stats[3].timestamp.ns = 30000000

\* C14: a RecentStats called with count zero returns at once an empty result
\* and no error, whatever the container and the state of the storage; it
\* sends no query to the store and changes nothing of the storage.
EntersRecentStats(t) ==
  /\ calls' = calls + 1
  /\ pc[t] \in {"idle", "returned"}
  /\ op'[t] = "RecentStats"
C14_ZeroCountIsNoOp ==
  [][\A t \in Threads :
       EntersRecentStats(t) /\ arg'[t].numStats = 0 =>
         /\ pc'[t] = "returned" /\ ret'[t] = "nil"
         /\ recent'[t] = [stats |-> <<>>, err |-> "none"]
         /\ UNCHANGED << queries, store, client, series, lastWrite, lock,
                         readyToFlush >>]_vars

\* C14 witness: on a closed storage a RecentStats with count zero has returned
\* the empty result and the store has received no query.
C14_Witness ==
  \E t \in Threads :
    /\ pc[t] = "returned" /\ op[t] = "RecentStats" /\ arg[t].numStats = 0
    /\ client = "nil"
    /\ ret[t] = "nil" /\ recent[t] = [stats |-> <<>>, err |-> "none"]
    /\ queries = <<>>

\* The store points of the answer whose reconstruction fails.
FailingPoints(t) ==
  { i \in DOMAIN StorePoints(t) : Reconstructed(StorePoints(t)[i]).err # "none" }
\* A step of the RecentStats of thread t.
RecentStatsStep(t) ==
  EntersRecentStats(t) \/ (pc[t] = "query" /\ pc'[t] # "query")

\* C15: a RecentStats whose query failed returns the query's error and no
\* sample; one whose answer holds a point that cannot be reconstructed
\* returns the error of the first such point it visits (the last in store
\* order) and no sample, however many points it reconstructed before; and no
\* step of RecentStats changes the pending batch or lastWrite.
C15_NoPartialResults ==
  /\ [](\A t \in Threads :
          ReadDone(t) =>
            /\ answer[t].err # "none" =>
                  recent[t] = [stats |-> <<>>, err |-> answer[t].err]
            /\ answer[t].err = "none" /\ FailingPoints(t) # {} =>
                  LET last == CHOOSE i \in FailingPoints(t) :
                                \A j \in FailingPoints(t) : j <= i
                  IN  recent[t] = [stats |-> <<>>,
                                   err |-> Reconstructed(StorePoints(t)[last]).err]
            /\ recent[t].err # "none" => recent[t].stats = <<>> /\ ret[t] = "error")
  /\ [][\A t \in Threads :
          RecentStatsStep(t) => UNCHANGED << series, lastWrite, store >>]_vars

\* C15 witness: with a row pending, the store answered three points of which
\* the first is of another host; RecentStats reconstructed the two others,
\* then failed and returned "different machine" and no sample.
C15_Witness ==
  \E t \in Threads :
    /\ ReadDone(t)
    /\ Len(series) > 0
    /\ Len(StorePoints(t)) = 3
    /\ FailingPoints(t) = {1}
    /\ recent[t] = [stats |-> <<>>, err |-> "different machine"]

\* The metric columns of the row the RecentStats of thread t was answered.
MetricAt(t) == { i \in DOMAIN ColsOf(t) : ColsOf(t)[i] \in MetricColumns }
Signed == {"int", "int32", "int64"}
Unsigned == {"uint32", "uint64"}
\* What the coercion of value v must give, floats apart: an error for a
\* negative signed integer, the number itself for an unsigned and for a
\* non-negative signed integer, zero for nil, the unknown-type error for a
\* value of another kind.
CoercesAsClaimed(v) ==
  LET n == convertToUint64(v)
  IN  /\ v.type \in Signed /\ v.v < 0 => n.err = "negative value"
      /\ v.type \in Signed /\ v.v >= 0 => n = [v |-> v.v, err |-> "none"]
      /\ v.type \in Unsigned => n = [v |-> v.v, err |-> "none"]
      /\ v.type = "nil" => n = [v |-> 0, err |-> "none"]
      /\ v.type \notin Signed \cup Unsigned \cup {"nil", "float64"} =>
            n.err = "Unknown type"
      /\ v.type = "float64" /\ v.v < 0 => n.err = "negative value"
\* A failing coercion in a metric column fails the whole row: an error and
\* no record.
BadMetricFailsRow(t) ==
  (\E i \in MetricAt(t) : convertToUint64(ValsOf(t)[i]).err # "none") =>
    recent[t].err # "none" /\ recent[t].stats = <<>> /\ ret[t] = "error"

\* C16 as claimed: in a metric column a negative signed or floating value
\* fails, an unsigned value and a non-negative signed or floating value give
\* the same number, nil gives zero, any other kind of value fails as of
\* unknown type; a failure in a metric column fails the whole row.
C16_SameNumber ==
  \A t \in Threads :
    ReadOne(t) =>
      /\ \A i \in MetricAt(t) :
            LET v == ValsOf(t)[i]
            IN  /\ CoercesAsClaimed(v)
                /\ v.type = "float64" /\ v.v >= 0 =>
                      /\ convertToUint64(v).err = "none"
                      /\ convertToUint64(v).v * FloatUnit = v.v
      /\ BadMetricFailsRow(t)

\* C16 amended: as claimed, but a non-negative floating value gives its
\* integer part, which is the same number only when the value is whole; and a
\* row that is reconstructed carries in its CPU field the number coerced from
\* its last CPU column.
C16_IntegerPart ==
  \A t \in Threads :
    ReadOne(t) =>
      /\ \A i \in MetricAt(t) :
            LET v == ValsOf(t)[i]
                n == convertToUint64(v)
            IN  /\ CoercesAsClaimed(v)
                /\ v.type = "float64" /\ v.v >= 0 =>
                      /\ n.err = "none"
                      /\ n.v * FloatUnit <= v.v /\ v.v < (n.v + 1) * FloatUnit
      /\ BadMetricFailsRow(t)
      /\ recent[t].err = "none" /\ MetricAt(t) # {} =>
            LET last == CHOOSE i \in MetricAt(t) : \A j \in MetricAt(t) : j <= i
            IN  recent[t].stats[1].cpu.total = convertToUint64(ValsOf(t)[last]).v

\* C16 witness: a row whose CPU column holds the float 7.5 has been
\* reconstructed with the CPU usage 7.
C16_Witness ==
  \E t \in Threads :
    /\ ReadOne(t)
    /\ ColsOf(t) = <<colCpuCumulativeUsage>>
    /\ ValsOf(t) = << Val("float64", 7 * FloatUnit + 5) >>
    /\ recent[t].err = "none"
    /\ recent[t].stats[1].cpu.total = 7

\* The places of column col in the row thread t was answered, and the value
\* at the last of them.
PlacesOf(t, col) == { i \in DOMAIN ColsOf(t) : ColsOf(t)[i] = col }
LastOf(t, col) ==
  ValsOf(t)[CHOOSE i \in PlacesOf(t, col) : \A j \in PlacesOf(t, col) : j <= i]
\* The number a value of the store stands for (its integer part).
NumberOf(v) == IF v.type = "float64" THEN v.v \div FloatUnit ELSE v.v

\* C17: a row that is reconstructed yields no filesystem entry when it has
\* none of the columns fs_device, fs_limit, fs_usage, and exactly one
\* otherwise, however many of them it has and in whatever order; the entry
\* holds for device, limit and usage the value of the last occurrence of the
\* column, and the empty string or zero when the column does not occur.
C17_OneFilesystemEntry ==
  \A t \in Threads :
    ReadOne(t) /\ recent[t].err = "none" =>
      LET fs == recent[t].stats[1].filesystem
      IN  IF \A c \in FsColumns : PlacesOf(t, c) = {}
            THEN fs = <<>>
            ELSE /\ Len(fs) = 1
                 /\ fs[1].device = IF PlacesOf(t, colFsDevice) = {} THEN ""
                                   ELSE LastOf(t, colFsDevice).v
                 /\ fs[1].limit = IF PlacesOf(t, colFsLimit) = {} THEN 0
                                  ELSE NumberOf(LastOf(t, colFsLimit))
                 /\ fs[1].usage = IF PlacesOf(t, colFsUsage) = {} THEN 0
                                  ELSE NumberOf(LastOf(t, colFsUsage))

\* C17 witness: a row with two limits around a device has been reconstructed
\* to one entry with the device, the second limit and no usage.
C17_Witness ==
  \E t \in Threads :
    /\ ReadOne(t) /\ recent[t].err = "none"
    /\ ColsOf(t) = <<colFsLimit, colFsDevice, colFsLimit>>
    /\ ValsOf(t)[1] # ValsOf(t)[3]
    /\ recent[t].stats[1].filesystem =
         << [device |-> "/dev/sda1", limit |-> 200, usage |-> 0] >>

\* A step takes rows out of the pending batch: a pending row is no longer
\* pending, or a batch is swapped out.
RowsLeave ==
  IdSet(series) \ IdSet(series') # {} \/ Len(batches') # Len(batches)
\* Thread t takes the step of the locked section of a valid AddStats in which
\* the predicate returns true.
FlushingStep(t) ==
  /\ op[t] = "AddStats" /\ ~MissingData(arg[t].stats)
  /\ pc[t] = "critical" /\ pc'[t] = "unlock"
  /\ ready'[t] = "true"
  /\ Len(evals') = Len(evals) + 1 /\ evals'[Len(evals')].result
\* Thread t takes a step of Close.
CloseStep(t) == op'[t] = "Close" /\ pc'[t] # pc[t]

\* C18: rows leave the pending batch only in the locked section of a valid
\* AddStats whose predicate returned true, which swaps out every pending row
\* with the rows it appended; no other step (the clock, Close, an override,
\* the store write) takes a row out, and Close changes neither the pending
\* batch nor what the store received.
C18_RowsLeaveOnlyByFlush ==
  [][/\ RowsLeave =>
          \E t \in Threads :
            /\ FlushingStep(t)
            /\ series' = <<>>
            /\ Len(batches') = Len(batches) + 1
            /\ IdSet(series) \subseteq IdSet(batches'[Len(batches')].rows)
     /\ \A t \in Threads : CloseStep(t) => UNCHANGED << series, store, batches >>
     /\ now' # now => UNCHANGED << series, store, batches >>]_vars

\* C18 witness: every call has returned, Close among them, and rows appended
\* after the last flush are pending that no store write received and no
\* further step will write.
C18_Witness ==
  /\ calls = MaxCalls
  /\ \A t \in Threads : pc[t] = "returned"
  /\ \E t \in Threads : op[t] = "Close"
  /\ Len(batches) = 1 /\ Len(store) = 1
  /\ Len(series) > 0
  /\ \A j \in DOMAIN store : IdSet(store[j].rows) \cap IdSet(series) = {}

\* The batch the j-th store write received: its place in the order of swaps.
BatchOf(j) == CHOOSE k \in DOMAIN batches : j \in WritesOf(k)

\* C19 as claimed: the store writes start in the order in which the batches
\* were swapped out: a batch swapped out later is written later, and when its
\* write starts the write of every batch swapped out before it has started.
C19_WritesInSwapOrder ==
  /\ \A i \in DOMAIN store : \A j \in DOMAIN store :
        i < j => BatchOf(i) < BatchOf(j)
  /\ \A k \in DOMAIN batches : \A m \in DOMAIN batches :
        k < m /\ batches[m].status \in {"writing", "ok", "failed"} =>
          batches[k].status # "swapped"

\* C19 amended: the store writes of batches swapped out by the same caller
\* start in the order of the swaps, and every store write is that of a
\* swapped-out batch, made by the thread that swapped it out.
C19_SameCallerInSwapOrder ==
  /\ \A i \in DOMAIN store : \A j \in DOMAIN store :
        i < j /\ store[i].by = store[j].by => BatchOf(i) < BatchOf(j)
  /\ \A j \in DOMAIN store :
        /\ WritesOf(BatchOf(j)) = {j}
        /\ batches[BatchOf(j)].by = store[j].by
  /\ \A k \in DOMAIN batches : \A m \in DOMAIN batches :
        /\ k < m /\ batches[k].by = batches[m].by
        /\ batches[m].status \in {"writing", "ok", "failed"}
        => batches[k].status # "swapped"

\* C19 witness: one caller made two flushes, one call after the other, and
\* the store received the two batches in the order of the swaps.
C19_Witness ==
  /\ Len(store) = 2
  /\ store[1].by = store[2].by
  /\ BatchOf(1) = 1 /\ BatchOf(2) = 2

\* C20 as claimed: no AddStats invokes the store write on the nil client that
\* Close left: no thread is about to write, and no batch was handed to the
\* write, while the client is nil.
C20_NoWriteOnNilClient ==
  /\ \A k \in DOMAIN batches : batches[k].status # "panicked"
  /\ \A t \in Threads : pc[t] = "panicked" => op[t] # "AddStats"

====
